---- MODULE Spec2Model ----
(***************************************************************************)
(* Identity reconciliation service (ContactService over ContactRepository). *)
(*                                                                         *)
(* The store is the Contact table: a sequence of rows indexed by their     *)
(* autoincrement id.  Strings are sequences of one-character strings, so   *)
(* that trimming is computed and not assumed.  A query ordered by          *)
(* createdAt returns rows of equal createdAt in an order the database      *)
(* chooses; the model draws every such order.                              *)
(***************************************************************************)
EXTENDS Integers, Sequences, FiniteSets, TLC

(***************************************************************************)
(* Bounds of the model.                                                    *)
(***************************************************************************)
MaxContacts == 3

(***************************************************************************)
(* Values.                                                                 *)
(***************************************************************************)
NULL == <<"null">>
UNDEFINED == <<"undefined">>
NoId == 0
NoTime == 0 - 1
PRIMARY == "primary"
SECONDARY == "secondary"
KEEP == "undefined"
KeepId == 0 - 1

\* What a caller may pass in a field: absent, blank, or a value, possibly
\* padded with spaces.
EmailInputs == { NULL, <<" ">>, <<"a">>, <<" ", "b", " ">>, <<"c">> }

PhoneInputs == { UNDEFINED, <<"1">>, <<"2", " ">> }

Requests == [email : EmailInputs, phoneNumber : PhoneInputs]

\* contacts is the Contact table and now the latest time the database has
\* stamped a row with; the others record the last call: the table before
\* it, the request as passed and as normalized, what the caller received,
\* and the repository methods it called, in order; rejected is the place in
\* that list of the repository call that was rejected, 0 if none was; reply
\* is the HTTP reply to the last POST /identify; inflight holds the identify
\* calls that run at the same time, each with its local variables and the
\* repository call it is about to make; reported maps an email or phone
\* to the primaryContatctId of the latest response that listed it.
VARIABLES contacts, now, before, raw, request, response, calls, rejected,
          reply, inflight, reported

vars ==
  <<contacts, now, before, raw, request, response, calls, rejected, reply,
    inflight, reported>>

(***************************************************************************)
(* JavaScript helpers.                                                     *)
(***************************************************************************)
Truthy(v) == v # NULL /\ v # UNDEFINED /\ v # <<>>

IsSpace(ch) == ch = " "

RECURSIVE TrimStart(_)
TrimStart(s) ==
  IF s # <<>> /\ IsSpace(Head(s)) THEN TrimStart(Tail(s)) ELSE s

RECURSIVE TrimEnd(_)
TrimEnd(s) ==
  IF s # <<>> /\ IsSpace(s[Len(s)]) THEN TrimEnd(SubSeq(s, 1, Len(s) - 1)) ELSE s

Trim(s) == TrimEnd(TrimStart(s))

Range(s) == { s[i] : i \in 1..Len(s) }

Includes(s, x) == x \in Range(s)

\* Faulty variant: the comparator's operands are swapped.
byNewestFirst(a, b) == b.createdAt - a.createdAt

\* Comparators of the two sorts of the service.
byCreatedAt(a, b) == a.createdAt - b.createdAt

\* Faulty variant: the comparator looks at createdAt only.
primaryFirstByAgeOnly(a, b) == a.createdAt - b.createdAt

primaryFirst(a, b) ==
  IF a.linkPrecedence = PRIMARY /\ b.linkPrecedence # PRIMARY THEN 0 - 1
  ELSE IF a.linkPrecedence # PRIMARY /\ b.linkPrecedence = PRIMARY THEN 1
  ELSE a.createdAt - b.createdAt

Compare(order, a, b) ==
  IF order = "createdAt" THEN byCreatedAt(a, b) ELSE primaryFirst(a, b)

\* Array.prototype.sort is stable: an element moves before exactly the
\* elements that compare greater, and keeps its place among equal ones.
\* `order` names the comparator: "createdAt" or "primaryFirst".
StableSort(s, order) ==
  LET n == Len(s)
      rank(i) == Cardinality({ j \in 1..n :
                     \/ Compare(order, s[j], s[i]) < 0
                     \/ Compare(order, s[j], s[i]) = 0 /\ j < i }) + 1
  IN  [k \in 1..n |-> s[CHOOSE i \in 1..n : rank(i) = k]]

\* contacts.find((c) => c.linkPrecedence === PRIMARY): the index of the
\* first primary row, 0 if there is none.
FindPrimary(s) ==
  IF \E i \in 1..Len(s) : s[i].linkPrecedence = PRIMARY
  THEN CHOOSE i \in 1..Len(s) :
         /\ s[i].linkPrecedence = PRIMARY
         /\ \A j \in 1..(i - 1) : s[j].linkPrecedence # PRIMARY
  ELSE 0

(***************************************************************************)
(* ContactService.normalizeField                                           *)
(***************************************************************************)
\* Faulty variant: a value that is empty once trimmed is kept.
normalizeFieldBlankKept(value) ==
  IF value = NULL \/ value = UNDEFINED THEN NULL ELSE Trim(value)

\* Faulty variant: the value is not trimmed.
normalizeFieldUntrimmed(value) ==
  IF value = NULL \/ value = UNDEFINED
  THEN NULL
  ELSE IF Len(value) > 0 THEN value ELSE NULL

normalizeField(value) ==
  IF value = NULL \/ value = UNDEFINED
  THEN NULL
  ELSE LET trimmed == Trim(value)
       IN  IF Len(trimmed) > 0 THEN trimmed ELSE NULL

(***************************************************************************)
(* ContactRepository.                                                      *)
(***************************************************************************)
\* Every way the database may return the rows `ids` under
\* orderBy: { createdAt: 'asc' }: rows of equal createdAt come in any order.
RECURSIVE OrderByCreatedAt(_, _)
OrderByCreatedAt(store, ids) ==
  IF ids = {}
  THEN { <<>> }
  ELSE UNION { { << store[first] >> \o rest :
                   rest \in OrderByCreatedAt(store, ids \ { first }) } :
               first \in { i \in ids : \A j \in ids :
                             store[i].createdAt <= store[j].createdAt } }

\* Faulty variant: an absent field is compared like a value, so it matches
\* the rows that lack the field.
findByEmailOrPhoneNullMatches(store, email, phone) ==
  IF ~Truthy(email) /\ ~Truthy(phone)
  THEN { <<>> }
  ELSE OrderByCreatedAt(store,
         { id \in 1..Len(store) :
             /\ store[id].deletedAt = NoTime
             /\ \/ store[id].email = email
                \/ store[id].phoneNumber = phone })

findByEmailOrPhone(store, email, phone) ==
  IF ~Truthy(email) /\ ~Truthy(phone)
  THEN { <<>> }
  ELSE OrderByCreatedAt(store,
         { id \in 1..Len(store) :
             /\ store[id].deletedAt = NoTime
             /\ \/ Truthy(email) /\ store[id].email = email
                \/ Truthy(phone) /\ store[id].phoneNumber = phone })

\* Faulty variant: the query also returns soft-deleted rows.
findAllLinkedContactsWithDeleted(store, primaryIds) ==
  IF Len(primaryIds) = 0
  THEN { <<>> }
  ELSE OrderByCreatedAt(store,
         { id \in 1..Len(store) :
             \/ Includes(primaryIds, id)
             \/ store[id].linkedId # NoId
                  /\ Includes(primaryIds, store[id].linkedId) })

\* Faulty variant: the query forgets the rows linked to the primaries.
findAllLinkedContactsPrimariesOnly(store, primaryIds) ==
  IF Len(primaryIds) = 0
  THEN { <<>> }
  ELSE OrderByCreatedAt(store,
         { id \in 1..Len(store) :
             store[id].deletedAt = NoTime /\ Includes(primaryIds, id) })

findAllLinkedContacts(store, primaryIds) ==
  IF Len(primaryIds) = 0
  THEN { <<>> }
  ELSE OrderByCreatedAt(store,
         { id \in 1..Len(store) :
             /\ store[id].deletedAt = NoTime
             /\ \/ Includes(primaryIds, id)
                \/ Includes(primaryIds, store[id].linkedId) })

\* The times an insert may stamp a row with: the clock never goes back, and
\* two inserts may fall in the same tick.  Time is counted from the first
\* insert.
Stamps(store, clock) ==
  IF store = <<>> THEN { clock } ELSE { clock, clock + 1 }

\* The row prisma.contact.create inserts; `at` is the clock read by the insert.
NewContact(store, data, at) ==
  [ id             |-> Len(store) + 1,
    phoneNumber    |-> data.phoneNumber,
    email          |-> data.email,
    linkedId       |-> data.linkedId,
    linkPrecedence |-> data.linkPrecedence,
    createdAt      |-> at,
    deletedAt      |-> NoTime ]

create(store, data, at) == Append(store, NewContact(store, data, at))

\* Faulty variant: the update also stamps the row's createdAt.
updateStampsCreatedAt(store, id, data) ==
  [ store EXCEPT
      ![id].linkedId =
          IF data.linkedId # KeepId THEN data.linkedId ELSE @,
      ![id].linkPrecedence =
          IF data.linkPrecedence # KEEP THEN data.linkPrecedence ELSE @,
      ![id].createdAt = @ + 1 ]

\* Faulty variant: the update drops linkPrecedence from the written data.
updateLinkedIdOnly(store, id, data) ==
  [ store EXCEPT
      ![id].linkedId =
          IF data.linkedId # KeepId THEN data.linkedId ELSE @ ]

update(store, id, data) ==
  [ store EXCEPT
      ![id].linkedId =
          IF data.linkedId # KeepId THEN data.linkedId ELSE @,
      ![id].linkPrecedence =
          IF data.linkPrecedence # KEEP THEN data.linkPrecedence ELSE @ ]

(***************************************************************************)
(* ContactService.                                                         *)
(***************************************************************************)
NoResponse ==
  [ kind |-> "none", message |-> "", primaryContatctId |-> NoId,
    emails |-> <<>>, phoneNumbers |-> <<>>, secondaryContactIds |-> <<>> ]

ValidationFailure ==
  [ NoResponse EXCEPT
      !.kind = "ValidationError",
      !.message = "At least one of email or phoneNumber must be provided" ]

\* The message is written here with a hyphen for the source's dash.
IntegrityFailure ==
  [ NoResponse EXCEPT
      !.kind = "Error",
      !.message = "No primary contact found in cluster - data integrity issue" ]

Ok(primaryId, emails, phoneNumbers, secondaryContactIds) ==
  [ kind |-> "ok", message |-> "", primaryContatctId |-> primaryId,
    emails |-> emails, phoneNumbers |-> phoneNumbers,
    secondaryContactIds |-> secondaryContactIds ]

\* Faulty variant: only the first matched contact is resolved.
resolvePrimaryIdsFirstOnly(matched) ==
  IF matched = <<>>
  THEN <<>>
  ELSE IF matched[1].linkPrecedence = PRIMARY THEN << matched[1].id >>
  ELSE IF matched[1].linkedId # NoId THEN << matched[1].linkedId >>
  ELSE <<>>

\* Array.from(primaryIdSet): the ids in order of first insertion.
RECURSIVE resolvePrimaryIds(_)
resolvePrimaryIds(matched) ==
  IF matched = <<>>
  THEN <<>>
  ELSE LET n == Len(matched)
           contact == matched[n]
           sofar == resolvePrimaryIds(SubSeq(matched, 1, n - 1))
           pid == IF contact.linkPrecedence = PRIMARY THEN contact.id
                  ELSE contact.linkedId
       IN  IF (contact.linkPrecedence = PRIMARY \/ contact.linkedId # NoId)
              /\ ~Includes(sofar, pid)
           THEN Append(sofar, pid)
           ELSE sofar

\* Faulty variant: the primaries are sorted newest first.
SortedPrimariesNewestFirst(primaryIds, allContacts) ==
  LET isPrimary(c) == Includes(primaryIds, c.id) /\ c.linkPrecedence = PRIMARY
      oldestFirst == StableSort(SelectSeq(allContacts, isPrimary), "createdAt")
  IN  [ i \in 1..Len(oldestFirst) |->
          oldestFirst[Len(oldestFirst) + 1 - i] ]

\* mergePrimaryContacts: the primary rows of the cluster, oldest first.
SortedPrimaries(primaryIds, allContacts) ==
  LET isPrimary(c) == Includes(primaryIds, c.id) /\ c.linkPrecedence = PRIMARY
  IN  StableSort(SelectSeq(allContacts, isPrimary), "createdAt")

\* Faulty variant: the winner is demoted under the loser.
LoserUpdatesReversed(winningPrimary, loser, allContacts) ==
  << [ id |-> winningPrimary.id,
       data |-> [ linkedId |-> loser.id,
                  linkPrecedence |-> SECONDARY ] ] >>

\* Faulty variant: the rows linked to the loser are left as they are.
LoserUpdatesLoserOnly(winningPrimary, loser, allContacts) ==
  << [ id |-> loser.id,
       data |-> [ linkedId |-> winningPrimary.id,
                  linkPrecedence |-> SECONDARY ] ] >>

\* Faulty variant: the rows linked to the loser are written as PRIMARY.
LoserUpdatesPromoteOrphans(winningPrimary, loser, allContacts) ==
  LET isOrphan(c) == c.linkedId = loser.id /\ c.id # loser.id
      orphanedSecondaries == SelectSeq(allContacts, isOrphan)
  IN  << [ id |-> loser.id,
           data |-> [ linkedId |-> winningPrimary.id,
                      linkPrecedence |-> SECONDARY ] ] >>
      \o [ i \in 1..Len(orphanedSecondaries) |->
             [ id |-> orphanedSecondaries[i].id,
               data |-> [ linkedId |-> winningPrimary.id,
                          linkPrecedence |-> PRIMARY ] ] ]

\* Faulty variant: the loser is linked to the winner but keeps its
\* linkPrecedence.
LoserUpdatesRelinkOnly(winningPrimary, loser, allContacts) ==
  LET isOrphan(c) == c.linkedId = loser.id /\ c.id # loser.id
      orphanedSecondaries == SelectSeq(allContacts, isOrphan)
  IN  << [ id |-> loser.id,
           data |-> [ linkedId |-> winningPrimary.id,
                      linkPrecedence |-> KEEP ] ] >>
      \o [ i \in 1..Len(orphanedSecondaries) |->
             [ id |-> orphanedSecondaries[i].id,
               data |-> [ linkedId |-> winningPrimary.id,
                          linkPrecedence |-> KEEP ] ] ]

\* mergePrimaryContacts: the updates of one loser, in the order of the loop
\* body: the loser itself, then each row linked to it.
LoserUpdates(winningPrimary, loser, allContacts) ==
  LET isOrphan(c) == c.linkedId = loser.id /\ c.id # loser.id
      orphanedSecondaries == SelectSeq(allContacts, isOrphan)
  IN  << [ id |-> loser.id,
           data |-> [ linkedId |-> winningPrimary.id,
                      linkPrecedence |-> SECONDARY ] ] >>
      \o [ i \in 1..Len(orphanedSecondaries) |->
             [ id |-> orphanedSecondaries[i].id,
               data |-> [ linkedId |-> winningPrimary.id,
                          linkPrecedence |-> KEEP ] ] ]

\* Faulty variant: only the oldest of the losers is merged.
MergeUpdatesFirstLoserOnly(winningPrimary, losingPrimaries, allContacts) ==
  IF losingPrimaries = <<>>
  THEN <<>>
  ELSE LoserUpdates(winningPrimary, Head(losingPrimaries), allContacts)

\* mergePrimaryContacts: every update of the merge, in program order.
RECURSIVE MergeUpdates(_, _, _)
MergeUpdates(winningPrimary, losingPrimaries, allContacts) ==
  IF losingPrimaries = <<>>
  THEN <<>>
  ELSE LoserUpdates(winningPrimary, Head(losingPrimaries), allContacts)
       \o MergeUpdates(winningPrimary, Tail(losingPrimaries), allContacts)

RECURSIVE ApplyUpdates(_, _)
ApplyUpdates(store, updates) ==
  IF updates = <<>>
  THEN store
  ELSE ApplyUpdates(update(store, Head(updates).id, Head(updates).data),
                    Tail(updates))

\* Faulty variant: the merge returns the rows it was given instead of
\* reading the cluster again.
mergePrimaryContactsNoReread(store, primaryIds, allContacts) ==
  LET primaries == SortedPrimaries(primaryIds, allContacts)
  IN  IF Len(primaries) <= 1
      THEN { [ store |-> store, contacts |-> allContacts, calls |-> <<>> ] }
      ELSE { [ store |-> ApplyUpdates(store,
                           MergeUpdates(primaries[1], Tail(primaries),
                                        allContacts)),
               contacts |-> allContacts,
               calls |-> [ i \in 1..Len(MergeUpdates(primaries[1],
                                                     Tail(primaries),
                                                     allContacts)) |->
                             "update" ] ] }

\* The outcomes of mergePrimaryContacts: the store after the updates, the
\* cluster as re-read from it, and the repository calls made.
mergePrimaryContacts(store, primaryIds, allContacts) ==
  LET primaries == SortedPrimaries(primaryIds, allContacts)
  IN  IF Len(primaries) <= 1
      THEN { [ store |-> store, contacts |-> allContacts, calls |-> <<>> ] }
      ELSE LET winningPrimary == primaries[1]
               losingPrimaries == Tail(primaries)
               updates == MergeUpdates(winningPrimary, losingPrimaries,
                                       allContacts)
               merged == ApplyUpdates(store, updates)
           IN  { [ store |-> merged, contacts |-> reread,
                   calls |-> [ i \in 1..Len(updates) |-> "update" ]
                             \o << "findAllLinkedContacts" >> ] :
                   reread \in findAllLinkedContacts(merged,
                                                    << winningPrimary.id >>) }

\* Faulty variant: a secondary is created only when the email is new.
NeedsSecondaryNewEmailOnly(email, phoneNumber, clusterContacts) ==
  LET existingEmails == { c.email : c \in
                            { d \in Range(clusterContacts) : Truthy(d.email) } }
      emailIsNew == email # NULL /\ email \notin existingEmails
      exactMatch == \E c \in Range(clusterContacts) :
                      /\ email = NULL \/ c.email = email
                      /\ phoneNumber = NULL \/ c.phoneNumber = phoneNumber
  IN  /\ FindPrimary(clusterContacts) # 0
      /\ ~exactMatch
      /\ emailIsNew

\* Faulty variant: a secondary is created only when both fields are new.
NeedsSecondaryBothNew(email, phoneNumber, clusterContacts) ==
  /\ \E c \in Range(clusterContacts) : c.linkPrecedence = PRIMARY
  /\ email # NULL
  /\ phoneNumber # NULL
  /\ \A c \in Range(clusterContacts) :
       c.email # email /\ c.phoneNumber # phoneNumber

\* Faulty variant: a secondary is created unless a row holds exactly the
\* request's pair of fields.
NeedsSecondaryUnlessSamePair(email, phoneNumber, clusterContacts) ==
  /\ FindPrimary(clusterContacts) # 0
  /\ ~(\E c \in Range(clusterContacts) :
         c.email = email /\ c.phoneNumber = phoneNumber)

\* createSecondaryIfNeeded: does the request carry information that is new
\* to the cluster and not already held as a pair by one of its rows?
NeedsSecondary(email, phoneNumber, clusterContacts) ==
  LET existingEmails == { c.email : c \in
                            { d \in Range(clusterContacts) : Truthy(d.email) } }
      existingPhones == { c.phoneNumber : c \in
                            { d \in Range(clusterContacts) :
                                Truthy(d.phoneNumber) } }
      emailIsNew == email # NULL /\ email \notin existingEmails
      phoneIsNew == phoneNumber # NULL /\ phoneNumber \notin existingPhones
      exactMatch == \E c \in Range(clusterContacts) :
                      /\ email = NULL \/ c.email = email
                      /\ phoneNumber = NULL \/ c.phoneNumber = phoneNumber
  IN  /\ FindPrimary(clusterContacts) # 0
      /\ ~exactMatch
      /\ emailIsNew \/ phoneIsNew

\* Faulty variant: the new row is linked to the latest row of the cluster
\* instead of its primary.
createSecondaryUnderLast(store, clock, email, phoneNumber, clusterContacts) ==
  IF \E c \in Range(clusterContacts) :
       c.linkPrecedence = PRIMARY /\ ~(\E d \in Range(clusterContacts) :
                                         /\ email = NULL \/ d.email = email
                                         /\ phoneNumber = NULL
                                            \/ d.phoneNumber = phoneNumber)
  THEN LET data == [ email |-> email, phoneNumber |-> phoneNumber,
                     linkedId |-> clusterContacts[Len(clusterContacts)].id,
                     linkPrecedence |-> SECONDARY ]
       IN  { [ store |-> Append(store, [ id |-> Len(store) + 1,
                                          phoneNumber |-> phoneNumber,
                                          email |-> email,
                                          linkedId |-> data.linkedId,
                                          linkPrecedence |-> SECONDARY,
                                          createdAt |-> at,
                                          deletedAt |-> NoTime ]),
               now |-> at,
               contacts |-> Append(clusterContacts,
                                   [ id |-> Len(store) + 1,
                                     phoneNumber |-> phoneNumber,
                                     email |-> email,
                                     linkedId |-> data.linkedId,
                                     linkPrecedence |-> SECONDARY,
                                     createdAt |-> at,
                                     deletedAt |-> NoTime ]),
               calls |-> << "create" >> ] :
               at \in Stamps(store, clock) }
  ELSE { [ store |-> store, now |-> clock, contacts |-> clusterContacts,
           calls |-> <<>> ] }

\* Faulty variant: the created row is not added to the returned cluster.
createSecondaryNotListed(store, clock, email, phoneNumber, clusterContacts) ==
  IF NeedsSecondary(email, phoneNumber, clusterContacts)
  THEN LET primary == clusterContacts[FindPrimary(clusterContacts)]
           data == [ email |-> email, phoneNumber |-> phoneNumber,
                     linkedId |-> primary.id,
                     linkPrecedence |-> SECONDARY ]
       IN  { [ store |-> create(store, data, at), now |-> at,
               contacts |-> clusterContacts,
               calls |-> << "create" >> ] :
               at \in Stamps(store, clock) }
  ELSE { [ store |-> store, now |-> clock, contacts |-> clusterContacts,
           calls |-> <<>> ] }

\* Faulty variant: the row carrying the new information is created as a
\* primary of its own.
createSecondaryAsPrimary(store, clock, email, phoneNumber, clusterContacts) ==
  IF NeedsSecondary(email, phoneNumber, clusterContacts)
  THEN LET data == [ email |-> email, phoneNumber |-> phoneNumber,
                     linkedId |-> NoId,
                     linkPrecedence |-> PRIMARY ]
       IN  { [ store |-> create(store, data, at), now |-> at,
               contacts |-> Append(clusterContacts,
                                   NewContact(store, data, at)),
               calls |-> << "create" >> ] :
               at \in Stamps(store, clock) }
  ELSE { [ store |-> store, now |-> clock, contacts |-> clusterContacts,
           calls |-> <<>> ] }

\* The outcomes of createSecondaryIfNeeded; `clock` is the latest time the
\* database has stamped a row with, and an insert reads a clock that has
\* not gone back.
createSecondaryIfNeeded(store, clock, email, phoneNumber, clusterContacts) ==
  IF NeedsSecondary(email, phoneNumber, clusterContacts)
  THEN LET primary == clusterContacts[FindPrimary(clusterContacts)]
           data == [ email |-> email, phoneNumber |-> phoneNumber,
                     linkedId |-> primary.id,
                     linkPrecedence |-> SECONDARY ]
       IN  { [ store |-> create(store, data, at), now |-> at,
               contacts |-> Append(clusterContacts,
                                   NewContact(store, data, at)),
               calls |-> << "create" >> ] :
               at \in Stamps(store, clock) }
  ELSE { [ store |-> store, now |-> clock, contacts |-> clusterContacts,
           calls |-> <<>> ] }

\* Faulty variant: a value is listed once for every row that holds it.
RECURSIVE DistinctWithRepeats(_)
DistinctWithRepeats(values) ==
  IF values = <<>>
  THEN <<>>
  ELSE LET n == Len(values)
           sofar == DistinctWithRepeats(SubSeq(values, 1, n - 1))
       IN  IF Truthy(values[n]) THEN Append(sofar, values[n]) ELSE sofar

\* buildResponse: first occurrences of the truthy values of a field.
RECURSIVE Distinct(_)
Distinct(values) ==
  IF values = <<>>
  THEN <<>>
  ELSE LET n == Len(values)
           sofar == Distinct(SubSeq(values, 1, n - 1))
       IN  IF Truthy(values[n]) /\ ~Includes(sofar, values[n])
           THEN Append(sofar, values[n])
           ELSE sofar

buildResponse(clusterContacts) ==
  LET sorted == StableSort(clusterContacts, "primaryFirst")
      isSecondary(c) == c.linkPrecedence = SECONDARY
      secondaries == SelectSeq(sorted, isSecondary)
  IN  IF FindPrimary(sorted) = 0
      THEN IntegrityFailure
      ELSE Ok(sorted[FindPrimary(sorted)].id,
              Distinct([ i \in 1..Len(sorted) |-> sorted[i].email ]),
              Distinct([ i \in 1..Len(sorted) |-> sorted[i].phoneNumber ]),
              [ i \in 1..Len(secondaries) |-> secondaries[i].id ])

\* Faulty variant: the response lists the new row's fields without testing
\* them for null.
createNewPrimaryContactUnfiltered(store, clock, email, phoneNumber) ==
  { [ contacts |-> Append(store, [ id |-> Len(store) + 1,
                                    phoneNumber |-> phoneNumber,
                                    email |-> email,
                                    linkedId |-> NoId,
                                    linkPrecedence |-> PRIMARY,
                                    createdAt |-> at,
                                    deletedAt |-> NoTime ]),
      now |-> at,
      response |-> [ kind |-> "ok", message |-> "",
                     primaryContatctId |-> Len(store) + 1,
                     emails |-> << email >>,
                     phoneNumbers |-> << phoneNumber >>,
                     secondaryContactIds |-> <<>> ],
      calls |-> << "create" >> ] :
      at \in Stamps(store, clock) }

\* The outcomes of createNewPrimaryContact.
createNewPrimaryContact(store, clock, email, phoneNumber) ==
  LET data == [ email |-> email, phoneNumber |-> phoneNumber,
                linkedId |-> NoId, linkPrecedence |-> PRIMARY ]
  IN  { [ contacts |-> create(store, data, at), now |-> at,
          response |-> LET contact == NewContact(store, data, at)
                       IN  Ok(contact.id,
                              IF Truthy(contact.email)
                                THEN << contact.email >> ELSE <<>>,
                              IF Truthy(contact.phoneNumber)
                                THEN << contact.phoneNumber >> ELSE <<>>,
                              <<>>),
          calls |-> << "create" >> ] :
          at \in Stamps(store, clock) }

\* Steps 2 to 6 of identify, for one value of primaryIds: the cluster is
\* read, merged if it has several primaries, extended if the request brings
\* new information, and turned into the response.
Reconcile(store, clock, email, phoneNumber, primaryIds) ==
  LET clusters == { [ store |-> store, contacts |-> allContacts,
                      calls |-> <<>> ] :
                      allContacts \in findAllLinkedContacts(store, primaryIds) }
      merged == IF Len(primaryIds) > 1
                THEN UNION { mergePrimaryContacts(c.store, primaryIds,
                                                  c.contacts) : c \in clusters }
                ELSE clusters
      extended == UNION { { [ x EXCEPT !.calls = m.calls \o @ ] :
                              x \in createSecondaryIfNeeded(m.store, clock,
                                      email, phoneNumber, m.contacts) } :
                          m \in merged }
  IN  { [ contacts |-> x.store, now |-> x.now,
          response |-> buildResponse(x.contacts),
          calls |-> << "findAllLinkedContacts" >> \o x.calls ] :
          x \in extended }

\* Faulty variant: the request is not checked for carrying a field.
identifyUnvalidated(store, clock, req) ==
  LET email == normalizeField(req.email)
      phoneNumber == normalizeField(req.phoneNumber)
      matches == findByEmailOrPhone(store, email, phoneNumber)
      found == IF matches = { <<>> }
               THEN createNewPrimaryContact(store, clock, email, phoneNumber)
               ELSE UNION { Reconcile(store, clock, email, phoneNumber,
                                      primaryIds) :
                            primaryIds \in
                              { resolvePrimaryIds(matchingContacts) :
                                  matchingContacts \in matches } }
  IN  { [ out EXCEPT !.calls = << "findByEmailOrPhone" >> \o @ ] :
          out \in found }

\* Every outcome of identify(req) on a store: the store and clock it leaves,
\* what the caller receives, and the repository calls made.
identify(store, clock, req) ==
  LET email == normalizeField(req.email)
      phoneNumber == normalizeField(req.phoneNumber)
      matches == findByEmailOrPhone(store, email, phoneNumber)
      found == IF matches = { <<>> }
               THEN createNewPrimaryContact(store, clock, email, phoneNumber)
               ELSE UNION { Reconcile(store, clock, email, phoneNumber,
                                      primaryIds) :
                            primaryIds \in
                              { resolvePrimaryIds(matchingContacts) :
                                  matchingContacts \in matches } }
  IN  IF ~Truthy(email) /\ ~Truthy(phoneNumber)
      THEN { [ contacts |-> store, now |-> clock,
               response |-> ValidationFailure, calls |-> <<>> ] }
      ELSE { [ out EXCEPT !.calls = << "findByEmailOrPhone" >> \o @ ] :
               out \in found }

(***************************************************************************)
(* Repository failures.  A repository method may reject (the database is   *)
(* unreachable, a statement times out); a rejected update or create writes *)
(* nothing.  The service has no try/catch and opens no transaction, so the *)
(* rejection ends the call where it stands and reaches the caller, with    *)
(* the writes made before it left in the table.                            *)
(***************************************************************************)
StorageFailure == [ NoResponse EXCEPT !.kind = "StorageError" ]

\* mergePrimaryContacts when one of its calls rejects: the first k updates
\* are applied and the next call, an update or the final re-read, fails.
mergePrimaryContactsFailing(store, primaryIds, allContacts) ==
  LET primaries == SortedPrimaries(primaryIds, allContacts)
      updates == MergeUpdates(primaries[1], Tail(primaries), allContacts)
  IN  IF Len(primaries) <= 1
      THEN {}
      ELSE { [ store |-> ApplyUpdates(store, SubSeq(updates, 1, k)),
               calls |-> [ i \in 1..(k + 1) |->
                             IF i <= Len(updates) THEN "update"
                             ELSE "findAllLinkedContacts" ] ] :
               k \in 0..Len(updates) }

\* Steps 2 to 6 of identify when one repository call rejects: the table as
\* the call leaves it and the calls made, the rejected one last.
ReconcileFailing(store, clock, email, phoneNumber, primaryIds) ==
  LET clusters == { [ store |-> store, contacts |-> allContacts,
                      calls |-> <<>> ] :
                      allContacts \in findAllLinkedContacts(store, primaryIds) }
      merged == IF Len(primaryIds) > 1
                THEN UNION { mergePrimaryContacts(c.store, primaryIds,
                                                  c.contacts) : c \in clusters }
                ELSE clusters
      inClusterQuery == { [ store |-> store, calls |-> <<>> ] }
      inMerge == IF Len(primaryIds) > 1
                 THEN UNION { { [ f EXCEPT !.calls =
                                    << "findAllLinkedContacts" >> \o @ ] :
                                  f \in mergePrimaryContactsFailing(c.store,
                                          primaryIds, c.contacts) } :
                              c \in clusters }
                 ELSE {}
      inCreate == { [ store |-> m.store,
                      calls |-> << "findAllLinkedContacts" >> \o m.calls
                                \o << "create" >> ] :
                    m \in { n \in merged :
                             NeedsSecondary(email, phoneNumber, n.contacts) } }
  IN  { [ f EXCEPT !.calls = << "findAllLinkedContacts" >> ] :
          f \in inClusterQuery } \cup inMerge \cup inCreate

\* The runs of identify(req) in which one repository call rejects: the table
\* as the run leaves it and the calls made, the rejected one last.
FailingRuns(store, clock, req) ==
  LET email == normalizeField(req.email)
      phoneNumber == normalizeField(req.phoneNumber)
      matches == findByEmailOrPhone(store, email, phoneNumber)
      inMatchQuery == { [ store |-> store, calls |-> <<>> ] }
      later == IF matches = { <<>> }
               THEN { [ store |-> store, calls |-> << "create" >> ] }
               ELSE UNION { ReconcileFailing(store, clock, email, phoneNumber,
                                             primaryIds) :
                            primaryIds \in
                              { resolvePrimaryIds(matchingContacts) :
                                  matchingContacts \in matches } }
  IN  IF ~Truthy(email) /\ ~Truthy(phoneNumber)
      THEN {}
      ELSE { [ f EXCEPT !.calls = << "findByEmailOrPhone" >> \o @ ] :
               f \in inMatchQuery \cup later }

\* Faulty variant: identify catches the rejection and answers with an empty
\* contact.
identifyFailingSwallowed(store, clock, req) ==
  { [ contacts |-> f.store, now |-> clock,
      response |-> Ok(NoId, <<>>, <<>>, <<>>),
      calls |-> f.calls, rejected |-> Len(f.calls) ] :
      f \in FailingRuns(store, clock, req) }

\* Every outcome of identify(req) in which one repository call rejects: the
\* rejection ends the call and is what the caller receives.
identifyFailing(store, clock, req) ==
  { [ contacts |-> f.store, now |-> clock,
      response |-> StorageFailure,
      calls |-> f.calls, rejected |-> Len(f.calls) ] :
      f \in FailingRuns(store, clock, req) }

(***************************************************************************)
(* POST /identify: validateIdentifyRequest, ContactController.identify,    *)
(* errorHandler.                                                           *)
(***************************************************************************)
\* The strings the schema's email check accepts; the one-letter values of
\* the model stand for well-formed addresses.
Addresses == { <<"a">>, <<"b">>, <<"c">> }

\* The email field of the schema: trim, check the format, null when absent.
\* When the format check fails, whether the final transform still runs
\* depends on the release of the validation library, so both values are
\* possible.
ZodEmail(value) ==
  IF value = NULL \/ value = UNDEFINED
  THEN { [ issues |-> <<>>, value |-> NULL ] }
  ELSE LET trimmed == Trim(value)
       IN  IF trimmed \in Addresses
           THEN { [ issues |-> <<>>, value |-> trimmed ] }
           ELSE { [ issues |-> << "Invalid email format" >>, value |-> v ] :
                    v \in { trimmed,
                            IF Truthy(trimmed) THEN trimmed ELSE NULL } }

\* The phoneNumber field of the schema.
ZodPhoneNumber(value) ==
  IF value = NULL \/ value = UNDEFINED
  THEN NULL
  ELSE LET str == Trim(value)
       IN  IF Len(str) > 0 THEN str ELSE NULL

\* identifyRequestSchema.safeParse(body).
identifyRequestSchema(body) ==
  { LET data == [ email |-> e.value,
                  phoneNumber |-> ZodPhoneNumber(body.phoneNumber) ]
        refined ==
          IF data.email # NULL \/ data.phoneNumber # NULL
          THEN <<>>
          ELSE << "At least one of email or phoneNumber must be provided" >>
    IN  [ success |-> e.issues \o refined = <<>>,
          issues |-> e.issues \o refined,
          data |-> data ] :
    e \in ZodEmail(body.email) }

\* issues.map((issue) => issue.message).join('; ')
RECURSIVE Join(_)
Join(messages) ==
  IF messages = <<>> THEN ""
  ELSE IF Len(messages) = 1 THEN messages[1]
  ELSE messages[1] \o "; " \o Join(Tail(messages))

\* What validateIdentifyRequest hands to next(): a ValidationError, or
\* nothing after replacing the body by the parsed data.
validateIdentifyRequest(body) ==
  { IF result.success
    THEN [ error |-> NoResponse, body |-> result.data ]
    ELSE [ error |-> [ NoResponse EXCEPT !.kind = "ValidationError",
                                         !.message = Join(result.issues) ],
           body |-> body ] :
    result \in identifyRequestSchema(body) }

\* AppError.statusCode of the errors of the model: ValidationError is the
\* only AppError among them.
isOperational(err) == err.kind = "ValidationError"

statusCode(err) == IF err.kind = "ValidationError" THEN 400 ELSE 500

NoReply == [ status |-> 0, body |-> NoResponse ]

\* Faulty variant: the error's own message is sent whatever the error.
errorHandlerLeaking(err) ==
  [ status |-> IF isOperational(err) THEN statusCode(err) ELSE 500,
    body |-> [ NoResponse EXCEPT !.kind = "error",
                                 !.message = err.message ] ]

\* The reply errorHandler sends for err: body { status: 'error', message }.
errorHandler(err) ==
  [ status |-> IF isOperational(err) THEN statusCode(err) ELSE 500,
    body |-> [ NoResponse EXCEPT
                 !.kind = "error",
                 !.message = IF isOperational(err) THEN err.message
                             ELSE "Internal server error" ] ]

\* ContactController.identify: res.status(200).json(result), or
\* next(error).
Controller(out) ==
  IF out.response.kind = "ok"
  THEN [ status |-> 200, body |-> out.response ]
  ELSE errorHandler(out.response)

\* No identify call is running concurrently with another.
Idle == <<>>

\* The emails and phones of the model.
Values == { <<"a">>, <<"b">>, <<"c">>, <<"1">>, <<"2">> }

\* No response has listed any value.
NoReports == [ v \in Values |-> NoId ]

(***************************************************************************)
(* The service called by one client at a time.                             *)
(***************************************************************************)
Init ==
  /\ contacts = <<>>
  /\ now = 0
  /\ before = <<>>
  /\ raw = [ email |-> NULL, phoneNumber |-> NULL ]
  /\ request = [ email |-> NULL, phoneNumber |-> NULL ]
  /\ response = NoResponse
  /\ calls = <<>>
  /\ rejected = 0
  /\ reply = NoReply
  /\ inflight = Idle
  /\ reported = NoReports

\* Emails and phone numbers are only ever compared for equality, so the
\* values are introduced in a fixed order: a request brings a value the
\* store has not seen only if the values before it are already there.
EmailOrder == << <<"a">>, <<"b">>, <<"c">> >>

PhoneOrder == << <<"1">>, <<"2">> >>

InOrder(order, seen, value) ==
  \A i \in 1..Len(order) :
    order[i] = value => \A j \in 1..(i - 1) : order[j] \in seen

Introduces(store, req) ==
  /\ InOrder(EmailOrder, { store[i].email : i \in 1..Len(store) },
             normalizeField(req.email))
  /\ InOrder(PhoneOrder, { store[i].phoneNumber : i \in 1..Len(store) },
             normalizeField(req.phoneNumber))

\* The call with request req ends with outcome out; failedCall is the place
\* of the rejected repository call among those it made, 0 if there is none.
Returns(req, out, failedCall) ==
  /\ Len(out.contacts) <= MaxContacts
  /\ contacts' = out.contacts
  /\ now' = out.now
  /\ before' = contacts
  /\ raw' = req
  /\ request' = [ email |-> normalizeField(req.email),
                   phoneNumber |-> normalizeField(req.phoneNumber) ]
  /\ response' = out.response
  /\ calls' = out.calls
  /\ rejected' = failedCall
  /\ reply' = NoReply
  /\ inflight' = inflight
  /\ reported' = reported

Identify ==
  \E req \in { r \in Requests : Introduces(contacts, r) } :
    \E out \in identify(contacts, now, req) : Returns(req, out, 0)

Next == Identify

Spec == Init /\ [][Next]_vars

\* Requests whose fields are absent or already trimmed; normalization and
\* validation are exercised by Spec.
PlainRequests ==
  [ email : { NULL, <<"a">>, <<"b">> },
    phoneNumber : { NULL, <<"1">>, <<"2">> } ]

\* An identify call all of whose repository calls succeed.
IdentifySucceeds ==
  \E req \in { r \in PlainRequests : Introduces(contacts, r) } :
    \E out \in identify(contacts, now, req) : Returns(req, out, 0)

\* An identify call during which a repository call rejects.
IdentifyFails ==
  \E req \in { r \in PlainRequests : Introduces(contacts, r) } :
    \E out \in identifyFailing(contacts, now, req) :
      Returns(req, out, out.rejected)

NextFaulty == IdentifySucceeds \/ IdentifyFails

\* The service over a repository whose calls may fail.
SpecFaulty == Init /\ [][NextFaulty]_vars

\* The values a response lists.
Listed(answer) == Range(answer.emails) \cup Range(answer.phoneNumbers)

\* A sequential identify call, the caller keeping for each value the
\* primaryContatctId of the latest response that listed it.
IdentifyReported ==
  \E req \in { r \in PlainRequests : Introduces(contacts, r) } :
    \E out \in identify(contacts, now, req) :
      /\ Len(out.contacts) <= MaxContacts
      /\ contacts' = out.contacts
      /\ now' = out.now
      /\ before' = contacts
      /\ raw' = req
      /\ request' = [ email |-> normalizeField(req.email),
                       phoneNumber |-> normalizeField(req.phoneNumber) ]
      /\ response' = out.response
      /\ calls' = out.calls
      /\ rejected' = 0
      /\ reply' = NoReply
      /\ inflight' = inflight
      /\ reported' =
           [ v \in Values |->
               IF out.response.kind = "ok" /\ v \in Listed(out.response)
               THEN out.response.primaryContatctId
               ELSE reported[v] ]

NextReported == IdentifyReported

SpecReported == Init /\ [][NextReported]_vars

\* Request bodies of POST /identify: fields absent, blank, padded, and an
\* email that is not an address.
Bodies ==
  [ email : { UNDEFINED, <<" ">>, <<"a">>, <<"!">> },
    phoneNumber : { UNDEFINED, <<" ">>, <<"1">>, <<"2", " ">> } ]

\* The reply to the request with this body, of which raw is what the
\* validator let through.
Replies(body, dto, out, failedCall, answer) ==
  /\ Len(out.contacts) <= MaxContacts
  /\ contacts' = out.contacts
  /\ now' = out.now
  /\ before' = contacts
  /\ raw' = body
  /\ request' = dto
  /\ response' = out.response
  /\ calls' = out.calls
  /\ rejected' = failedCall
  /\ reply' = answer
  /\ inflight' = inflight
  /\ reported' = reported

\* The validator rejects the body: the service is not called.
PostRejected ==
  \E body \in Bodies :
    \E v \in validateIdentifyRequest(body) :
      /\ v.error # NoResponse
      /\ Replies(body, [ email |-> NULL, phoneNumber |-> NULL ],
                 [ contacts |-> contacts, now |-> now, response |-> v.error,
                   calls |-> <<>> ],
                 0, errorHandler(v.error))

\* The validator accepts the body and every repository call succeeds.
PostHandled ==
  \E body \in { b \in Bodies : Introduces(contacts, b) } :
    \E v \in validateIdentifyRequest(body) :
      /\ v.error = NoResponse
      /\ LET dto == [ email |-> v.body.email,
                      phoneNumber |-> v.body.phoneNumber ]
         IN  \E out \in identify(contacts, now, dto) :
               Replies(body, dto, out, 0, Controller(out))

\* The validator accepts the body and a repository call rejects.
PostFails ==
  \E body \in { b \in Bodies : Introduces(contacts, b) } :
    \E v \in validateIdentifyRequest(body) :
      /\ v.error = NoResponse
      /\ LET dto == [ email |-> v.body.email,
                      phoneNumber |-> v.body.phoneNumber ]
         IN  \E out \in identifyFailing(contacts, now, dto) :
               Replies(body, dto, out, out.rejected, Controller(out))

NextHttp == PostRejected \/ PostHandled \/ PostFails

\* The endpoint over a repository whose calls may fail.
SpecHttp == Init /\ [][NextHttp]_vars

(***************************************************************************)
(* The service called on a table it did not write itself: the rows were    *)
(* put there by earlier releases, concurrent calls or other writers of the *)
(* database.                                                               *)
(***************************************************************************)
MaxSeeded == 3

\* How many rows of a seeded table may break the linking rules.
MaxCorrupt == 1

\* The emails, phones and creation times of the rows of a table of n rows:
\* values appear in their fixed order and ids follow creation time, one
\* row a tick (rows sharing a tick are those Spec creates).
RECURSIVE SeededValues(_)
SeededValues(n) ==
  IF n = 0
  THEN { <<>> }
  ELSE UNION {
         { Append(rows, [ email |-> e, phoneNumber |-> p, createdAt |-> t ]) :
             <<e, p, t>> \in
               { x \in ({ NULL, <<"a">>, <<"b">> } \X { NULL, <<"1">>, <<"2">> }
                         \X { Len(rows) }) :
                   /\ x[1] # NULL \/ x[2] # NULL
                   /\ InOrder(EmailOrder,
                              { rows[i].email : i \in 1..Len(rows) }, x[1])
                   /\ InOrder(PhoneOrder,
                              { rows[i].phoneNumber : i \in 1..Len(rows) },
                              x[2]) } } :
         rows \in SeededValues(n - 1) }

\* Row i of the linking keeps the rules: a primary has no linkedId, a
\* secondary is linked to a primary.
KeepsRules(links, i) ==
  IF links[i].linkPrecedence = PRIMARY
  THEN links[i].linkedId = NoId
  ELSE /\ links[i].linkedId \in DOMAIN links
       /\ links[i].linkedId # i
       /\ links[links[i].linkedId].linkPrecedence = PRIMARY

SeededLinks(n) ==
  { links \in [ 1..n -> [ linkPrecedence : { PRIMARY, SECONDARY },
                          linkedId : { NoId } \cup 1..n ] ] :
      Cardinality({ i \in 1..n : ~KeepsRules(links, i) }) <= MaxCorrupt }

SeededStores ==
  UNION { { [ i \in 1..n |->
                [ id             |-> i,
                  phoneNumber    |-> rows[i].phoneNumber,
                  email          |-> rows[i].email,
                  linkedId       |-> links[i].linkedId,
                  linkPrecedence |-> links[i].linkPrecedence,
                  createdAt      |-> rows[i].createdAt,
                  deletedAt      |-> NoTime ] ] :
              rows \in SeededValues(n), links \in SeededLinks(n) } :
          n \in 0..MaxSeeded }

InitSeeded ==
  /\ contacts \in SeededStores
  /\ now = IF contacts = <<>> THEN 0 ELSE contacts[Len(contacts)].createdAt
  /\ before = contacts
  /\ raw = [ email |-> NULL, phoneNumber |-> NULL ]
  /\ request = [ email |-> NULL, phoneNumber |-> NULL ]
  /\ response = NoResponse
  /\ calls = <<>>
  /\ rejected = 0
  /\ reply = NoReply
  /\ inflight = Idle
  /\ reported = NoReports

\* The first identify call on the table.
IdentifySeeded ==
  /\ response = NoResponse
  /\ \E req \in { r \in PlainRequests : Introduces(contacts, r) } :
       \E out \in identify(contacts, now, req) :
         /\ contacts' = out.contacts
         /\ now' = out.now
         /\ before' = contacts
         /\ raw' = req
         /\ request' = [ email |-> normalizeField(req.email),
                          phoneNumber |-> normalizeField(req.phoneNumber) ]
         /\ response' = out.response
         /\ calls' = out.calls
         /\ rejected' = 0
         /\ reply' = NoReply
         /\ inflight' = inflight
         /\ reported' = reported

NextSeeded == IdentifySeeded

SpecSeeded == InitSeeded /\ [][NextSeeded]_vars

\* Tables that keep the linking rules and in which any of the rows have
\* been soft-deleted by another writer of the database: identify itself
\* never sets deletedAt.
SoftDeletedStores ==
  UNION { { [ i \in 1..Len(store) |->
                IF i \in deleted
                THEN [ store[i] EXCEPT !.deletedAt = Len(store) ]
                ELSE store[i] ] :
              deleted \in SUBSET (1..Len(store)) } :
          store \in { t \in SeededStores :
                        \A i \in 1..Len(t) :
                          KeepsRules([ j \in 1..Len(t) |->
                                         [ linkPrecedence |->
                                             t[j].linkPrecedence,
                                           linkedId |-> t[j].linkedId ] ],
                                     i) } }

InitSoftDeleted ==
  /\ contacts \in SoftDeletedStores
  /\ now = IF contacts = <<>> THEN 0 ELSE contacts[Len(contacts)].createdAt
  /\ before = contacts
  /\ raw = [ email |-> NULL, phoneNumber |-> NULL ]
  /\ request = [ email |-> NULL, phoneNumber |-> NULL ]
  /\ response = NoResponse
  /\ calls = <<>>
  /\ rejected = 0
  /\ reply = NoReply
  /\ inflight = Idle
  /\ reported = NoReports

SpecSoftDeleted == InitSoftDeleted /\ [][NextSeeded]_vars

(***************************************************************************)
(* Two identify calls at the same time.  Node runs each call up to its     *)
(* next await and the database serves the repository calls one at a time,  *)
(* so a step is one repository call of one of the calls together with the  *)
(* code that follows it up to the next repository call.  The service opens *)
(* no transaction and takes no lock.                                       *)
(***************************************************************************)
\* Rows the table may hold when the two calls begin.
MaxRows == 2

Concurrent == { 1, 2 }

RaceRequests ==
  [ email : { NULL, <<"a">>, <<"b">>, <<"c">> },
    phoneNumber : { NULL, <<"1">>, <<"2">> } ]
  \ { [ email |-> NULL, phoneNumber |-> NULL ] }

\* A call that has normalized and validated its request and is about to
\* call findByEmailOrPhone.
Begun(req) ==
  [ pc |-> "findByEmailOrPhone",
    email |-> normalizeField(req.email),
    phoneNumber |-> normalizeField(req.phoneNumber),
    primaryIds |-> <<>>, allContacts |-> <<>>, updates |-> <<>>,
    winningPrimary |-> NoId, response |-> NoResponse ]

\* A call made before the two concurrent ones begin.
Earlier ==
  /\ inflight = Idle
  /\ \E req \in { r \in PlainRequests : Introduces(contacts, r) } :
       \E out \in identify(contacts, now, req) :
         /\ Len(out.contacts) <= MaxRows
         /\ contacts' = out.contacts
         /\ now' = out.now
         /\ before' = out.contacts
         /\ UNCHANGED <<raw, request, response, calls, rejected, reply,
                        inflight, reported>>

\* Two calls arrive.
Arrive ==
  /\ inflight = Idle
  /\ \E r1 \in { r \in RaceRequests : Introduces(contacts, r) } :
       \E r2 \in { r \in RaceRequests :
                     /\ InOrder(EmailOrder,
                                { contacts[i].email : i \in 1..Len(contacts) }
                                  \cup { r1.email }, r.email)
                     /\ InOrder(PhoneOrder,
                                { contacts[i].phoneNumber :
                                    i \in 1..Len(contacts) }
                                  \cup { r1.phoneNumber }, r.phoneNumber) } :
         inflight' = << Begun(r1), Begun(r2) >>
  /\ UNCHANGED <<contacts, now, before, raw, request, response, calls,
                 rejected, reply, reported>>

\* createSecondaryIfNeeded up to its repository call, then buildResponse.
AfterMerge(call, clusterContacts) ==
  IF NeedsSecondary(call.email, call.phoneNumber, clusterContacts)
  THEN [ call EXCEPT !.pc = "createSecondary",
                     !.allContacts = clusterContacts ]
  ELSE [ call EXCEPT !.pc = "done",
                     !.allContacts = clusterContacts,
                     !.response = buildResponse(clusterContacts) ]

\* identify, step 1: the lookup, then resolvePrimaryIds.
AwaitFindByEmailOrPhone(k) ==
  /\ inflight # Idle
  /\ inflight[k].pc = "findByEmailOrPhone"
  /\ \E matchingContacts \in findByEmailOrPhone(contacts, inflight[k].email,
                                                 inflight[k].phoneNumber) :
       inflight' =
         [ inflight EXCEPT ![k] =
             IF matchingContacts = <<>>
             THEN [ @ EXCEPT !.pc = "createPrimary" ]
             ELSE [ @ EXCEPT !.pc = "findAllLinkedContacts",
                             !.primaryIds =
                                resolvePrimaryIds(matchingContacts) ] ]
  /\ UNCHANGED <<contacts, now, before, raw, request, response, calls,
                 rejected, reply, reported>>

\* createNewPrimaryContact.
AwaitCreatePrimary(k) ==
  /\ inflight # Idle
  /\ inflight[k].pc = "createPrimary"
  /\ Len(contacts) < MaxContacts
  /\ \E out \in createNewPrimaryContact(contacts, now, inflight[k].email,
                                         inflight[k].phoneNumber) :
       /\ contacts' = out.contacts
       /\ now' = out.now
       /\ inflight' = [ inflight EXCEPT ![k].pc = "done",
                                        ![k].response = out.response ]
  /\ UNCHANGED <<before, raw, request, response, calls, rejected, reply, reported>>

\* identify, step 3: the cluster is read; mergePrimaryContacts up to its
\* first update, or createSecondaryIfNeeded up to its create.
AwaitFindAllLinkedContacts(k) ==
  /\ inflight # Idle
  /\ inflight[k].pc = "findAllLinkedContacts"
  /\ \E allContacts \in findAllLinkedContacts(contacts,
                                               inflight[k].primaryIds) :
       LET primaries == SortedPrimaries(inflight[k].primaryIds, allContacts)
       IN  inflight' =
             [ inflight EXCEPT ![k] =
                 IF Len(inflight[k].primaryIds) > 1 /\ Len(primaries) > 1
                 THEN [ @ EXCEPT !.pc = "update",
                                 !.allContacts = allContacts,
                                 !.winningPrimary = primaries[1].id,
                                 !.updates =
                                    MergeUpdates(primaries[1], Tail(primaries),
                                                 allContacts) ]
                 ELSE AfterMerge(@, allContacts) ]
  /\ UNCHANGED <<contacts, now, before, raw, request, response, calls,
                 rejected, reply, reported>>

\* mergePrimaryContacts: the next update of the loop.
AwaitUpdate(k) ==
  /\ inflight # Idle
  /\ inflight[k].pc = "update"
  /\ contacts' = update(contacts, Head(inflight[k].updates).id,
                        Head(inflight[k].updates).data)
  /\ inflight' =
       [ inflight EXCEPT
           ![k].updates = Tail(@),
           ![k].pc = IF Tail(inflight[k].updates) = <<>> THEN "reread"
                     ELSE "update" ]
  /\ UNCHANGED <<now, before, raw, request, response, calls, rejected,
                 reply, reported>>

\* mergePrimaryContacts: the cluster is read again after the loop.
AwaitReread(k) ==
  /\ inflight # Idle
  /\ inflight[k].pc = "reread"
  /\ \E reread \in findAllLinkedContacts(contacts,
                                          << inflight[k].winningPrimary >>) :
       inflight' = [ inflight EXCEPT ![k] = AfterMerge(@, reread) ]
  /\ UNCHANGED <<contacts, now, before, raw, request, response, calls,
                 rejected, reply, reported>>

\* createSecondaryIfNeeded: the create, then buildResponse.
AwaitCreateSecondary(k) ==
  /\ inflight # Idle
  /\ inflight[k].pc = "createSecondary"
  /\ Len(contacts) < MaxContacts
  /\ LET clusterContacts == inflight[k].allContacts
         primary == clusterContacts[FindPrimary(clusterContacts)]
         data == [ email |-> inflight[k].email,
                   phoneNumber |-> inflight[k].phoneNumber,
                   linkedId |-> primary.id,
                   linkPrecedence |-> SECONDARY ]
     IN  \E at \in Stamps(contacts, now) :
           /\ contacts' = create(contacts, data, at)
           /\ now' = at
           /\ inflight' =
                [ inflight EXCEPT
                    ![k].pc = "done",
                    ![k].allContacts =
                       Append(clusterContacts, NewContact(contacts, data, at)),
                    ![k].response =
                       buildResponse(Append(clusterContacts,
                                            NewContact(contacts, data, at))) ]
  /\ UNCHANGED <<before, raw, request, response, calls, rejected, reply, reported>>

NextConcurrent ==
  \/ Earlier
  \/ Arrive
  \/ \E k \in Concurrent : AwaitFindByEmailOrPhone(k)
  \/ \E k \in Concurrent : AwaitCreatePrimary(k)
  \/ \E k \in Concurrent : AwaitFindAllLinkedContacts(k)
  \/ \E k \in Concurrent : AwaitUpdate(k)
  \/ \E k \in Concurrent : AwaitReread(k)
  \/ \E k \in Concurrent : AwaitCreateSecondary(k)

SpecConcurrent == Init /\ [][NextConcurrent]_vars

(***************************************************************************)
(* Vocabulary of the properties.                                           *)
(***************************************************************************)
Ids(store) == 1..Len(store)

Answered == response.kind = "ok"

\* The primary a row belongs to.
PrimaryOf(store, id) ==
  IF store[id].linkPrecedence = PRIMARY THEN id ELSE store[id].linkedId

\* The rows of the cluster of primary p.
ClusterOf(store, p) == { i \in Ids(store) : PrimaryOf(store, i) = p }

HoldsEmail(store, email) ==
  { i \in Ids(store) : email # NULL /\ store[i].email = email }

HoldsPhone(store, phone) ==
  { i \in Ids(store) : phone # NULL /\ store[i].phoneNumber = phone }

NoMatch(store, req) ==
  HoldsEmail(store, req.email) \cup HoldsPhone(store, req.phoneNumber) = {}

Unchanged(store, later) ==
  /\ Len(later) >= Len(store)
  /\ \A i \in Ids(store) : later[i] = store[i]

\* The request reaches cluster x by its email and another cluster y by its
\* phone.
Bridges(store, req, x, y) ==
  /\ x # y
  /\ \E i \in HoldsEmail(store, req.email) : PrimaryOf(store, i) = x
  /\ \E j \in HoldsPhone(store, req.phoneNumber) : PrimaryOf(store, j) = y

\* Row b was a primary before the call and the call demoted it.
Demoted(b) ==
  /\ b \in Ids(before)
  /\ before[b].linkPrecedence = PRIMARY
  /\ contacts[b].linkPrecedence = SECONDARY

(***************************************************************************)
(* C1  Idempotence: an identify call that repeats the request of the call  *)
(* before it creates no contact and returns the same emails, phoneNumbers  *)
(* and secondaryContactIds, in the same order.                             *)
(***************************************************************************)
C1_Idempotence ==
  [][ (Answered /\ request' = request) =>
        /\ Len(contacts') = Len(contacts)
        /\ response'.emails = response.emails
        /\ response'.phoneNumbers = response.phoneNumbers
        /\ response'.secondaryContactIds = response.secondaryContactIds ]_vars

(***************************************************************************)
(* C2  No match creates a primary: when no contact holds the request's     *)
(* email or phone, identify adds exactly one row, PRIMARY with no linkedId *)
(* and the request's fields, and answers with that row's id, no            *)
(* secondaries and exactly the supplied fields.                            *)
(***************************************************************************)
C2_NoMatchCreatesPrimary ==
  (Answered /\ NoMatch(before, request)) =>
    /\ Len(contacts) = Len(before) + 1
    /\ Unchanged(before, contacts)
    /\ LET created == contacts[Len(contacts)]
       IN  /\ created.linkPrecedence = PRIMARY
           /\ created.linkedId = NoId
           /\ created.email = request.email
           /\ created.phoneNumber = request.phoneNumber
           /\ response.primaryContatctId = created.id
    /\ response.secondaryContactIds = <<>>
    /\ response.emails =
         IF request.email = NULL THEN <<>> ELSE << request.email >>
    /\ response.phoneNumbers =
         IF request.phoneNumber = NULL THEN <<>> ELSE << request.phoneNumber >>

C2_Witness ==
  /\ Answered
  /\ NoMatch(before, request)
  /\ before # <<>>
  /\ request.email = NULL

\* Primary p is alone in its cluster and holds both an email and a phone.
LonePrimary(store, p) ==
  /\ p \in Ids(store)
  /\ store[p].linkPrecedence = PRIMARY
  /\ ClusterOf(store, p) = { p }
  /\ store[p].email # NULL
  /\ store[p].phoneNumber # NULL

\* The call added one row, SECONDARY under p, carrying the request's fields.
AddedSecondary(p) ==
  /\ Len(contacts) = Len(before) + 1
  /\ Unchanged(before, contacts)
  /\ LET created == contacts[Len(contacts)]
     IN  /\ created.linkPrecedence = SECONDARY
         /\ created.linkedId = p
         /\ created.email = request.email
         /\ created.phoneNumber = request.phoneNumber
         /\ response.secondaryContactIds = << created.id >>
  /\ response.primaryContatctId = p

\* The request repeats the phone of lone primary p with an email the store
\* has never seen.
NewEmailFor(p) ==
  /\ LonePrimary(before, p)
  /\ request.phoneNumber = before[p].phoneNumber
  /\ request.email # NULL
  /\ HoldsEmail(before, request.email) = {}

NewPhoneFor(p) ==
  /\ LonePrimary(before, p)
  /\ request.email = before[p].email
  /\ request.phoneNumber # NULL
  /\ HoldsPhone(before, request.phoneNumber) = {}

(***************************************************************************)
(* C3  Partial match creates exactly one secondary: for a cluster of one   *)
(* primary (e1, p1), the request (e2, p1) with e2 new to the store adds    *)
(* one row, SECONDARY under the primary with fields (e2, p1); the answer   *)
(* keeps the primary, has emails = [e1, e2] and secondaryContactIds = [the *)
(* new id].  Likewise (e1, p2) gives phoneNumbers = [p1, p2].              *)
(***************************************************************************)
C3_PartialMatchCreatesSecondary ==
  Answered =>
    \A p \in Ids(before) :
      /\ NewEmailFor(p) =>
           /\ AddedSecondary(p)
           /\ response.emails = << before[p].email, request.email >>
           /\ response.phoneNumbers = << before[p].phoneNumber >>
      /\ NewPhoneFor(p) =>
           /\ AddedSecondary(p)
           /\ response.phoneNumbers =
                << before[p].phoneNumber, request.phoneNumber >>
           /\ response.emails = << before[p].email >>

C3_Witness ==
  /\ Answered
  /\ \E p \in Ids(before) : NewEmailFor(p) /\ Len(before) > 1

\* Primary x was created strictly before primary y.
OlderOf(store, x, y) == store[x].createdAt < store[y].createdAt

\* The call answered with primary a and left b demoted under it.
MergedInto(a, b) ==
  /\ response.primaryContatctId = a
  /\ contacts[a].linkPrecedence = PRIMARY
  /\ contacts[a].linkedId = NoId
  /\ contacts[b].linkPrecedence = SECONDARY
  /\ contacts[b].linkedId = a

(***************************************************************************)
(* C4  Merge picks the oldest as primary: when the request's email reaches *)
(* one cluster and its phone another, and one of the two primaries was     *)
(* created strictly earlier, the answer names the earlier one, which stays *)
(* PRIMARY without linkedId, and the later one is stored SECONDARY with    *)
(* linkedId = the earlier one's id.                                        *)
(***************************************************************************)
C4_MergeKeepsOldest ==
  Answered =>
    \A x, y \in Ids(before) :
      Bridges(before, request, x, y) =>
        /\ OlderOf(before, x, y) => MergedInto(x, y)
        /\ OlderOf(before, y, x) => MergedInto(y, x)

C4_Witness ==
  /\ Answered
  /\ \E x, y \in Ids(before) :
       /\ Bridges(before, request, x, y)
       /\ OlderOf(before, x, y)
       /\ Demoted(y)

(***************************************************************************)
(* C5  Orphan re-linking: when a call demotes primary B under primary A,   *)
(* every row that had linkedId = B before the call has linkedId = A after  *)
(* it, and no row references B any more.                                   *)
(***************************************************************************)
C5_OrphansRelinked ==
  \A b \in Ids(before) :
    Demoted(b) =>
      /\ \A c \in Ids(before) :
           before[c].linkedId = b => contacts[c].linkedId = contacts[b].linkedId
      /\ \A c \in Ids(contacts) : contacts[c].linkedId # b

C5_Witness ==
  \E b, c \in Ids(before) :
    /\ Demoted(b)
    /\ before[c].linkedId = b
    /\ contacts[c].linkedId = contacts[b].linkedId

(***************************************************************************)
(* C6  A bridging request adds no row: when the request's email is held in *)
(* one cluster and its phone in another, identify merges the two, creates  *)
(* no contact, and secondaryContactIds lists exactly the rows of both      *)
(* clusters other than the winning primary.                                *)
(***************************************************************************)
C6_BridgeAddsNoRow ==
  Answered =>
    \A x, y \in Ids(before) :
      Bridges(before, request, x, y) =>
        /\ Len(contacts) = Len(before)
        /\ response.primaryContatctId \in { x, y }
        /\ Range(response.secondaryContactIds) =
             (ClusterOf(before, x) \cup ClusterOf(before, y))
               \ { response.primaryContatctId }
        /\ Len(response.secondaryContactIds) =
             Cardinality(Range(response.secondaryContactIds))
        /\ ClusterOf(contacts, response.primaryContatctId) =
             ClusterOf(before, x) \cup ClusterOf(before, y)

C6_Witness ==
  /\ Answered
  /\ \E x, y \in Ids(before) : Bridges(before, request, x, y)
  /\ Len(response.secondaryContactIds) = 2
  /\ Len(contacts) = Len(before)

(***************************************************************************)
(* C7  Flat hierarchy: every SECONDARY row has a linkedId that refers to   *)
(* an existing row whose linkPrecedence is PRIMARY.                        *)
(***************************************************************************)
C7_FlatHierarchy ==
  \A c \in Ids(contacts) :
    contacts[c].linkPrecedence = SECONDARY =>
      /\ contacts[c].linkedId \in Ids(contacts)
      /\ contacts[contacts[c].linkedId].linkPrecedence = PRIMARY

C7_Witness ==
  \E b \in Ids(before) :
    /\ Demoted(b)
    /\ Cardinality(ClusterOf(contacts, contacts[b].linkedId)) = 3

(***************************************************************************)
(* C8  A row has no linkedId if and only if it is PRIMARY.                 *)
(***************************************************************************)
C8_LinkedIffSecondary ==
  \A c \in Ids(contacts) :
    contacts[c].linkedId = NoId <=> contacts[c].linkPrecedence = PRIMARY

C8_Witness ==
  /\ \E b \in Ids(before) : Demoted(b) /\ contacts[b].linkedId # NoId
  /\ \E c \in Ids(contacts) : contacts[c].linkedId = NoId

(***************************************************************************)
(* C9  Primary seniority: a primary was created no later than any row      *)
(* whose linkedId is its id.                                               *)
(***************************************************************************)
C9_PrimaryIsOldest ==
  \A c \in Ids(contacts) :
    contacts[c].linkedId \in Ids(contacts) =>
      contacts[contacts[c].linkedId].createdAt <= contacts[c].createdAt

C9_Witness ==
  \E b \in Ids(before) :
    /\ Demoted(b)
    /\ contacts[contacts[b].linkedId].createdAt < contacts[b].createdAt

SamePair(c, d) == c.email = d.email /\ c.phoneNumber = d.phoneNumber

(***************************************************************************)
(* C10  No duplicate rows: no two rows hold the same (email, phoneNumber)  *)
(* pair, and a request whose exact pair is already held by a row creates   *)
(* no contact.                                                             *)
(***************************************************************************)
C10_NoDuplicateRows ==
  /\ \A c, d \in Ids(contacts) :
       c # d => ~SamePair(contacts[c], contacts[d])
  /\ (Answered /\ \E c \in Ids(before) : SamePair(before[c], request)) =>
       Len(contacts) = Len(before)

C10_Witness ==
  /\ Answered
  /\ \E c \in Ids(before) :
       /\ SamePair(before[c], request)
       /\ before[c].linkPrecedence = SECONDARY
       /\ request.email # NULL
       /\ request.phoneNumber # NULL

\* The call created row c.
Created(c) == c \in Ids(contacts) \ Ids(before)

(***************************************************************************)
(* C11  Every row of the table, whether created as PRIMARY or as           *)
(* SECONDARY, has a non-null email or a non-null phoneNumber, in every     *)
(* reachable state.                                                        *)
(***************************************************************************)
C11_EveryContactHasAField ==
  \A c \in Ids(contacts) :
    contacts[c].email # NULL \/ contacts[c].phoneNumber # NULL

C11_Witness ==
  /\ \E c \in Ids(contacts) :
       /\ Created(c)
       /\ contacts[c].linkPrecedence = SECONDARY
  /\ \E d \in Ids(contacts) :
       /\ contacts[d].linkPrecedence = PRIMARY
       /\ contacts[d].email = NULL
  /\ \E e \in Ids(contacts) : contacts[e].phoneNumber = NULL

\* A field the caller left out: null, undefined, or made of spaces only.
Absent(value) ==
  \/ value = NULL
  \/ value = UNDEFINED
  \/ \A i \in 1..Len(value) : IsSpace(value[i])

\* A call has been made.
Called == response.kind # "none"

(***************************************************************************)
(* C12  Validation rejects empty requests without touching the store: when *)
(* email and phoneNumber are both absent (null, undefined or blank after   *)
(* trimming), identify fails with a ValidationError carrying 'At least one *)
(* of email or phoneNumber must be provided', calls no repository method,  *)
(* read or write, and leaves the table as it was.                          *)
(***************************************************************************)
C12_EmptyRequestRejected ==
  (Called /\ Absent(raw.email) /\ Absent(raw.phoneNumber)) =>
    /\ response.kind = "ValidationError"
    /\ response.message =
         "At least one of email or phoneNumber must be provided"
    /\ calls = <<>>
    /\ contacts = before

C12_Witness ==
  /\ Called
  /\ raw.email = << " " >>
  /\ raw.phoneNumber = UNDEFINED
  /\ response.kind = "ValidationError"
  /\ contacts # <<>>

(***************************************************************************)
(* C13  Primary-first ordering: in every response, if the cluster's        *)
(* primary has a non-null email then emails[0] is that email, and if it    *)
(* has a non-null phoneNumber then phoneNumbers[0] is that phone,          *)
(* whichever row of the cluster the request matched.                       *)
(***************************************************************************)
C13_PrimaryFirst ==
  Answered =>
    LET primary == contacts[response.primaryContatctId]
    IN  /\ primary.linkPrecedence = PRIMARY
        /\ primary.email # NULL =>
             /\ response.emails # <<>>
             /\ response.emails[1] = primary.email
        /\ primary.phoneNumber # NULL =>
             /\ response.phoneNumbers # <<>>
             /\ response.phoneNumbers[1] = primary.phoneNumber

\* The primary has a larger id than one of its secondaries, and the request
\* matched the secondary only.
C13_Witness ==
  /\ Answered
  /\ \E s \in Ids(contacts) :
       LET p == response.primaryContatctId
       IN  /\ contacts[s].linkedId = p
           /\ s < p
           /\ contacts[p].email # NULL
           /\ contacts[p].phoneNumber # NULL
           /\ request.email = contacts[s].email
           /\ request.email # contacts[p].email
           /\ request.phoneNumber = NULL
           /\ Len(response.emails) = 2

\* The secondaries of the answered cluster.
SecondariesOf(store, p) == ClusterOf(store, p) \ { p }

(***************************************************************************)
(* C14  Deterministic secondary order: secondaryContactIds lists the       *)
(* cluster's SECONDARY rows by createdAt ascending, rows of equal          *)
(* createdAt by id ascending, whatever order storage returned the rows in  *)
(* and whether or not a row was created by the call.                       *)
(***************************************************************************)
C14_SecondariesByCreatedAtThenId ==
  Answered =>
    LET ids == response.secondaryContactIds
    IN  /\ Range(ids) = SecondariesOf(contacts, response.primaryContatctId)
        /\ \A i, j \in 1..Len(ids) :
             i < j =>
               \/ contacts[ids[i]].createdAt < contacts[ids[j]].createdAt
               \/ /\ contacts[ids[i]].createdAt = contacts[ids[j]].createdAt
                  /\ ids[i] < ids[j]

\* The place of a row in the primary-first, createdAt-ascending order.
Place(row) == IF row.linkPrecedence = PRIMARY THEN 0 - 1 ELSE row.createdAt

Least(S) == CHOOSE m \in S : \A n \in S : m <= n

\* The place of the first row of the cluster that holds the value.
FirstEmail(cluster, v) ==
  Least({ Place(contacts[c]) : c \in { d \in cluster : contacts[d].email = v } })

FirstPhone(cluster, v) ==
  Least({ Place(contacts[c]) :
            c \in { d \in cluster : contacts[d].phoneNumber = v } })

(***************************************************************************)
(* C15  Deduplicated values: in every response, emails holds each distinct *)
(* non-null email of the cluster's rows exactly once and phoneNumbers each *)
(* distinct non-null phone exactly once, placed by first occurrence in the *)
(* primary-first, createdAt-ascending order; no null, no repeated value.   *)
(***************************************************************************)
C15_DistinctValuesInOrder ==
  Answered =>
    LET cluster == ClusterOf(contacts, response.primaryContatctId)
        emails == response.emails
        phones == response.phoneNumbers
    IN  /\ Range(emails) = { contacts[c].email : c \in cluster } \ { NULL }
        /\ Range(phones) = { contacts[c].phoneNumber : c \in cluster } \ { NULL }
        /\ Len(emails) = Cardinality(Range(emails))
        /\ Len(phones) = Cardinality(Range(phones))
        /\ \A i, j \in 1..Len(emails) :
             i < j => FirstEmail(cluster, emails[i]) <= FirstEmail(cluster, emails[j])
        /\ \A i, j \in 1..Len(phones) :
             i < j => FirstPhone(cluster, phones[i]) <= FirstPhone(cluster, phones[j])

\* Three rows, two of them with the same phone and one without an email.
C15_Witness ==
  /\ Answered
  /\ LET cluster == ClusterOf(contacts, response.primaryContatctId)
     IN  /\ Cardinality(cluster) = 3
         /\ Len(response.phoneNumbers) = 2
         /\ Len(response.emails) = 2
         /\ \E c \in cluster : contacts[c].email = NULL
         /\ \E c, d \in cluster :
              c # d /\ contacts[c].phoneNumber = contacts[d].phoneNumber

\* The request carries exactly one field, and some row of the store holds
\* its value.
SingleFieldHeld(store, req) ==
  /\ (req.email = NULL) # (req.phoneNumber = NULL)
  /\ ~NoMatch(store, req)

\* The primaries of the rows the request matches.
EntryClusters(store, req) ==
  { PrimaryOf(store, i) :
      i \in HoldsEmail(store, req.email) \cup HoldsPhone(store, req.phoneNumber) }

(***************************************************************************)
(* C16  Entry-point independence: single-field requests that use any email *)
(* or phone held by any row of one cluster, primary or secondary, all      *)
(* return the same primaryContatctId, emails, phoneNumbers and             *)
(* secondaryContactIds; a SECONDARY match resolves to its linkedId.        *)
(* Stated on two calls in a row that enter the same cluster.               *)
(***************************************************************************)
C16_EntryPointIndependence ==
  [][ ( /\ Answered
        /\ SingleFieldHeld(before, request)
        /\ SingleFieldHeld(contacts, request')
        /\ EntryClusters(contacts, request') = EntryClusters(before, request) )
      => response' = response ]_vars

(***************************************************************************)
(* C17  Single-field requests never create a secondary: a request with     *)
(* exactly one field whose value some row already holds leaves the table   *)
(* entirely unchanged, with no create and no update; and every row that    *)
(* identify creates as SECONDARY has both email and phoneNumber non-null.  *)
(***************************************************************************)
C17_SingleFieldCreatesNothing ==
  /\ (Called /\ SingleFieldHeld(before, request)) =>
       /\ contacts = before
       /\ "create" \notin Range(calls)
       /\ "update" \notin Range(calls)
  /\ \A c \in Ids(contacts) :
       (Created(c) /\ contacts[c].linkPrecedence = SECONDARY) =>
         /\ contacts[c].email # NULL
         /\ contacts[c].phoneNumber # NULL

\* A phone-only request that matched a secondary of a cluster whose primary
\* has no phone.
C17_Witness ==
  /\ Called
  /\ SingleFieldHeld(before, request)
  /\ request.email = NULL
  /\ \E c \in HoldsPhone(before, request.phoneNumber) :
       /\ before[c].linkPrecedence = SECONDARY
       /\ before[before[c].linkedId].phoneNumber = NULL
  /\ contacts = before

(***************************************************************************)
(* C18  Merge tie-break: when the two primaries a request bridges have     *)
(* equal createdAt, the one with the smaller id stays PRIMARY and the      *)
(* other is demoted under it, in whatever order storage returns rows of    *)
(* equal createdAt.                                                        *)
(***************************************************************************)
C18_TieGoesToSmallestId ==
  Answered =>
    \A x, y \in Ids(before) :
      ( /\ Bridges(before, request, x, y)
        /\ before[x].createdAt = before[y].createdAt
        /\ x < y )
      => /\ MergedInto(x, y)
         /\ contacts[x].linkPrecedence = PRIMARY

(***************************************************************************)
(* C19  Merge is a no-op on replay: after a bridging request has merged    *)
(* two clusters, the same request issued again makes no update and no      *)
(* create, and every row's linkedId and linkPrecedence are as before.      *)
(***************************************************************************)
C19_MergeReplayNoOp ==
  [][ ( /\ Answered
        /\ \E x, y \in Ids(before) : Bridges(before, request, x, y)
        /\ request' = request )
      => /\ "update" \notin Range(calls')
         /\ "create" \notin Range(calls')
         /\ Len(contacts') = Len(contacts)
         /\ \A c \in Ids(contacts) :
              /\ contacts'[c].linkedId = contacts[c].linkedId
              /\ contacts'[c].linkPrecedence = contacts[c].linkPrecedence ]_vars

\* A bridging request issued on its merged cluster: both its fields are
\* held, by different rows, one of them a demoted primary (a row created
\* as SECONDARY has both fields), and the call changed nothing.
C19_Witness ==
  /\ Answered
  /\ contacts = before
  /\ calls = << "findByEmailOrPhone", "findAllLinkedContacts" >>
  /\ \E a, b \in Ids(before) :
       /\ before[a].linkPrecedence = PRIMARY
       /\ before[a].email = request.email
       /\ before[a].phoneNumber = NULL
       /\ before[b].linkPrecedence = SECONDARY
       /\ before[b].linkedId = a
       /\ before[b].email = NULL
       /\ before[b].phoneNumber = request.phoneNumber

\* The call ended in a rejected repository call.
Failed == response.kind = "StorageError"

(***************************************************************************)
(* C20  No half-done merge: when a repository update fails after at least  *)
(* one update of a merge has been applied, the table is left as it was     *)
(* before the merge or fully merged: never with a loser demoted to         *)
(* SECONDARY while a row that was linked to it still has linkedId = the    *)
(* loser's id, nor with one loser demoted and another still PRIMARY.       *)
(***************************************************************************)
C20_NoHalfDoneMerge ==
  (Failed /\ "update" \in Range(calls)) =>
    \A b \in Ids(before) :
      Demoted(b) =>
        /\ \A c \in Ids(contacts) : contacts[c].linkedId # b
        /\ \A x, y \in Ids(before) :
             Bridges(before, request, x, y) =>
               Cardinality({ p \in { x, y } :
                               contacts[p].linkPrecedence = PRIMARY }) = 1

\* The call failed part-way through a merge: loser b is demoted.
Interrupted(b) == Failed /\ Demoted(b)

(***************************************************************************)
(* C21  Retry completes an interrupted merge: after a call has failed      *)
(* part-way through a merge, the same request issued again succeeds and    *)
(* leaves the table as an uninterrupted merge would have: the loser is     *)
(* SECONDARY under the winner and every row that was linked to the loser   *)
(* is linked to the winner.                                                *)
(***************************************************************************)
C21_RetryCompletesMerge ==
  [][ \A b \in Ids(before) :
        ( /\ Interrupted(b)
          /\ request' = request
          /\ response'.kind # "StorageError" )
        => /\ response'.kind = "ok"
           /\ contacts'[b].linkPrecedence = SECONDARY
           /\ contacts'[b].linkedId = response'.primaryContatctId
           /\ \A c \in Ids(before) :
                before[c].linkedId = b =>
                  contacts'[c].linkedId = response'.primaryContatctId ]_vars

(***************************************************************************)
(* C25  Errors are never swallowed: when a repository call made during     *)
(* identify is rejected, identify fails with that error, makes no further  *)
(* repository call (no retry inside the service), and the caller receives  *)
(* no response, partial or otherwise.                                      *)
(***************************************************************************)
C25_ErrorsNotSwallowed ==
  rejected # 0 =>
    /\ response = StorageFailure
    /\ rejected = Len(calls)
    /\ response.primaryContatctId = NoId
    /\ response.emails = <<>>
    /\ response.phoneNumbers = <<>>
    /\ response.secondaryContactIds = <<>>

\* The re-read that ends a merge was rejected, after both updates.
C25_Witness ==
  /\ rejected = 5
  /\ calls[3] = "update"
  /\ calls[4] = "update"
  /\ calls[5] = "findAllLinkedContacts"
  /\ contacts # before

\* A string made of spaces only.
Blank(value) ==
  /\ value \notin { NULL, UNDEFINED }
  /\ value # <<>>
  /\ \A i \in 1..Len(value) : IsSpace(value[i])

\* Requests with a whitespace-only field.
BlankRequests ==
  { r \in [ email : EmailInputs \cup { << " ", " " >> },
            phoneNumber : PhoneInputs \cup { << " " >> } ] :
      Blank(r.email) \/ Blank(r.phoneNumber) }

\* The request with its whitespace-only fields left out.
WithoutBlanks(r) ==
  [ email |-> IF Blank(r.email) THEN NULL ELSE r.email,
    phoneNumber |-> IF Blank(r.phoneNumber) THEN NULL ELSE r.phoneNumber ]

C29_ImmutableFields ==
  /\ Len(contacts) >= Len(before)
  /\ \A c \in Ids(before) :
       /\ contacts[c].id = before[c].id
       /\ contacts[c].email = before[c].email
       /\ contacts[c].phoneNumber = before[c].phoneNumber
       /\ contacts[c].createdAt = before[c].createdAt
       /\ contacts[c].deletedAt = before[c].deletedAt

\* A merge that wrote two rows: the loser and a row linked to it.
C29_Witness ==
  /\ calls = << "findByEmailOrPhone", "findAllLinkedContacts", "update",
                "update", "findAllLinkedContacts" >>
  /\ Cardinality({ c \in Ids(before) : contacts[c] # before[c] }) = 2

(***************************************************************************)
(* C30  Demotion is one-way: a row that is SECONDARY is SECONDARY after    *)
(* every later identify call, and the only change of linkPrecedence a call *)
(* ever makes is PRIMARY to SECONDARY, in a merge.                         *)
(***************************************************************************)
C30_DemotionIsOneWay ==
  \A c \in Ids(before) :
    /\ before[c].linkPrecedence = SECONDARY =>
         contacts[c].linkPrecedence = SECONDARY
    /\ contacts[c].linkPrecedence # before[c].linkPrecedence =>
         /\ before[c].linkPrecedence = PRIMARY
         /\ contacts[c].linkPrecedence = SECONDARY
         /\ "update" \in Range(calls)
         /\ \E x, y \in Ids(before) : Bridges(before, request, x, y)

\* A merge re-pointed a row that was already SECONDARY.
C30_Witness ==
  \E c \in Ids(before) :
    /\ before[c].linkPrecedence = SECONDARY
    /\ contacts[c].linkPrecedence = SECONDARY
    /\ contacts[c].linkedId # before[c].linkedId

(***************************************************************************)
(* C27  Error-to-status mapping: a body whose two fields are absent or     *)
(* blank is answered 400 with status 'error' and the validation error's    *)
(* message, and the table is unchanged; an integrity or storage error is   *)
(* answered 500 with status 'error' and 'Internal server error'; a 200     *)
(* with a contact body is sent exactly when identify returned a response.  *)
(***************************************************************************)
C27_ErrorToStatus ==
  /\ (Absent(raw.email) /\ Absent(raw.phoneNumber) /\ reply # NoReply) =>
       response.kind = "ValidationError"
  /\ response.kind = "ValidationError" =>
       /\ reply.status = 400
       /\ reply.body.kind = "error"
       /\ reply.body.message = response.message
       /\ reply.body.message # ""
       /\ contacts = before
       /\ calls = <<>>
  /\ response.kind \in { "Error", "StorageError" } =>
       /\ reply.status = 500
       /\ reply.body.kind = "error"
       /\ reply.body.message = "Internal server error"
  /\ reply.status = 200 <=> response.kind = "ok"
  /\ reply.status = 200 => reply.body = response
  /\ reply.status # 200 => reply.body.primaryContatctId = NoId

\* The integrity error of a cluster left without primary reached the
\* endpoint and was answered 500.
C27_Witness ==
  /\ response = IntegrityFailure
  /\ reply.status = 500
  /\ Len(contacts) = 3

\* The primaries the request resolves to on the table before the call.
ResolvedPrimaries ==
  { IF before[i].linkPrecedence = PRIMARY THEN i ELSE before[i].linkedId :
      i \in { j \in HoldsEmail(before, request.email)
                      \cup HoldsPhone(before, request.phoneNumber) :
                before[j].linkPrecedence = PRIMARY
                  \/ before[j].linkedId # NoId } }

\* The cluster the call ended with: the row it created when nothing
\* matched, else the resolved primaries and the rows linked to them.
FinalCluster ==
  IF NoMatch(before, request)
  THEN Ids(contacts) \ Ids(before)
  ELSE { c \in Ids(contacts) :
           c \in ResolvedPrimaries \/ contacts[c].linkedId \in ResolvedPrimaries }

FinalPrimaries ==
  { c \in FinalCluster : contacts[c].linkPrecedence = PRIMARY }

WellFormed(store) ==
  \A i \in Ids(store) :
    KeepsRules([ j \in Ids(store) |->
                   [ linkPrecedence |-> store[j].linkPrecedence,
                     linkedId |-> store[j].linkedId ] ], i)

\* The primaries of the rows the request matches.
MatchedPrimaries ==
  { PrimaryOf(before, i) :
      i \in HoldsEmail(before, request.email)
              \cup HoldsPhone(before, request.phoneNumber) }

\* The rows of the clusters of the matched primaries.
MatchedUnion == UNION { ClusterOf(before, p) : p \in MatchedPrimaries }

(***************************************************************************)
(* C26  N-way merge: on any table that keeps the linking rules, when the   *)
(* request matches rows of N >= 2 distinct primaries, after identify       *)
(* exactly one of them is PRIMARY, one with the earliest createdAt; the    *)
(* other N-1 are SECONDARY and linked to it, every row that was linked to  *)
(* any of them is linked to it, and the response covers the union of the   *)
(* N clusters.                                                             *)
(***************************************************************************)
C26_NWayMerge ==
  (Called /\ WellFormed(before) /\ Cardinality(MatchedPrimaries) >= 2) =>
    /\ Answered
    /\ \E w \in MatchedPrimaries :
         /\ \A p \in MatchedPrimaries :
              before[w].createdAt <= before[p].createdAt
         /\ contacts[w].linkPrecedence = PRIMARY
         /\ contacts[w].linkedId = NoId
         /\ \A p \in MatchedPrimaries \ { w } :
              /\ contacts[p].linkPrecedence = SECONDARY
              /\ contacts[p].linkedId = w
         /\ \A c \in MatchedUnion \ { w } : contacts[c].linkedId = w
         /\ response.primaryContatctId = w
         /\ Range(response.secondaryContactIds)
              = (MatchedUnion \ { w }) \cup (Ids(contacts) \ Ids(before))
         /\ Range(response.emails)
              = { contacts[c].email :
                    c \in MatchedUnion \cup (Ids(contacts) \ Ids(before)) }
                \ { NULL }
         /\ Range(response.phoneNumbers)
              = { contacts[c].phoneNumber :
                    c \in MatchedUnion \cup (Ids(contacts) \ Ids(before)) }
                \ { NULL }

\* One request matched three primaries and all three were merged.
C26_Witness ==
  /\ Answered
  /\ WellFormed(before)
  /\ Cardinality(MatchedPrimaries) = 3
  /\ Cardinality({ c \in Ids(contacts) :
                     contacts[c].linkPrecedence = PRIMARY }) = 1

\* The two concurrent calls have both returned.
BothDone ==
  /\ inflight # Idle
  /\ \A k \in Concurrent : inflight[k].pc = "done"

(***************************************************************************)
(* C23  Concurrent identical requests do not duplicate: when two           *)
(* concurrent identify calls with the same email and phone have both       *)
(* completed, at most one row holds exactly that pair and at most one of   *)
(* the rows holding the email or the phone is PRIMARY.                     *)
(***************************************************************************)
C23_NoDuplicateUnderConcurrency ==
  ( /\ BothDone
    /\ inflight[1].email = inflight[2].email
    /\ inflight[1].phoneNumber = inflight[2].phoneNumber ) =>
    /\ Cardinality({ c \in Ids(contacts) :
                       /\ contacts[c].email = inflight[1].email
                       /\ contacts[c].phoneNumber = inflight[1].phoneNumber })
         <= 1
    /\ Cardinality({ c \in HoldsEmail(contacts, inflight[1].email)
                             \cup HoldsPhone(contacts, inflight[1].phoneNumber) :
                       contacts[c].linkPrecedence = PRIMARY }) <= 1

(***************************************************************************)
(* C24  Flat hierarchy under concurrency: when two concurrent identify     *)
(* calls have both completed, no row is linked to a SECONDARY row.         *)
(***************************************************************************)
C24_FlatUnderConcurrency ==
  BothDone =>
    \A c \in Ids(contacts) :
      contacts[c].linkedId # NoId =>
        contacts[contacts[c].linkedId].linkPrecedence # SECONDARY

\* The rows of the answered cluster.
AnsweredCluster == ClusterOf(contacts, response.primaryContatctId)

\* Row c equals the request field by field, an absent field matching
\* anything.
PairMatch(c) ==
  /\ request.email = NULL \/ contacts[c].email = request.email
  /\ request.phoneNumber = NULL \/ contacts[c].phoneNumber = request.phoneNumber

\* The call matched rows, found no row of the cluster equal to the request
\* field by field, and created nothing.
ThirdBranch ==
  /\ Answered
  /\ ~NoMatch(before, request)
  /\ Len(contacts) = Len(before)
  /\ ~\E c \in AnsweredCluster : PairMatch(c)

(***************************************************************************)
(* C31  As stated: the outcome "no row of the cluster equals the request   *)
(* field by field, neither field is new, nothing is created" occurs only   *)
(* for requests in which email or phone is absent.                         *)
(***************************************************************************)
C31_ThirdBranchOnlyForPartialRequests ==
  ThirdBranch => (request.email = NULL \/ request.phoneNumber = NULL)

(***************************************************************************)
(* C31  Amended: that outcome occurs only for requests with both fields    *)
(* present, the email held by one row of the cluster and the phone by      *)
(* another; a request with an absent field that matched always finds a row *)
(* equal to it field by field, and a request with a field new to the       *)
(* cluster always creates a row.                                           *)
(***************************************************************************)
C31_ThirdBranchOnlyForCrossPairs ==
  /\ ThirdBranch =>
       /\ request.email # NULL
       /\ request.phoneNumber # NULL
       /\ \E c \in AnsweredCluster : contacts[c].email = request.email
       /\ \E c \in AnsweredCluster :
            contacts[c].phoneNumber = request.phoneNumber
  /\ ( /\ Answered
       /\ ~NoMatch(before, request)
       /\ request.email = NULL \/ request.phoneNumber = NULL ) =>
       \E c \in AnsweredCluster : PairMatch(c)

\* A request with both fields, each held by a different row of one
\* cluster that no merge had to form, created nothing.
C31_Witness ==
  /\ ThirdBranch
  /\ request.email # NULL
  /\ request.phoneNumber # NULL
  /\ contacts = before

\* The rows of the store that are not soft-deleted.
Live(store) == { i \in Ids(store) : store[i].deletedAt = NoTime }

\* The live rows holding the email or the phone of the request.
LiveMatches(store, req) ==
  { i \in Live(store) :
      \/ req.email # NULL /\ store[i].email = req.email
      \/ req.phoneNumber # NULL /\ store[i].phoneNumber = req.phoneNumber }

\* The call created a primary and did nothing else.
CreatedPrimary ==
  /\ Answered
  /\ Len(contacts) = Len(before) + 1
  /\ Unchanged(before, contacts)
  /\ contacts[Len(contacts)].linkPrecedence = PRIMARY
  /\ contacts[Len(contacts)].linkedId = NoId
  /\ response.primaryContatctId = Len(contacts)
  /\ response.secondaryContactIds = <<>>

(***************************************************************************)
(* C32  An absent request field contributes no match condition: the rows   *)
(* findByEmailOrPhone returns are exactly the rows, not soft-deleted,      *)
(* whose email equals the supplied email or whose phoneNumber equals the   *)
(* supplied phone; an email-only request does not match the rows without   *)
(* phone, nor a phone-only request the rows without email, so a            *)
(* single-field request whose value no live row holds creates a primary.   *)
(***************************************************************************)
C32_AbsentFieldMatchesNothing ==
  /\ \A r \in PlainRequests :
       \A matchingContacts \in
            findByEmailOrPhone(contacts, r.email, r.phoneNumber) :
         { matchingContacts[i].id : i \in 1..Len(matchingContacts) }
           = LiveMatches(contacts, r)
  /\ ( /\ Called
       /\ (request.email = NULL) # (request.phoneNumber = NULL)
       /\ LiveMatches(before, request) = {} ) => CreatedPrimary

\* An email-only request, on a table with a live row without phone and no
\* live row with that email, created a primary.
C32_Witness ==
  /\ CreatedPrimary
  /\ request.email # NULL
  /\ request.phoneNumber = NULL
  /\ \E c \in Live(before) : before[c].phoneNumber = NULL

(***************************************************************************)
(* C33  Soft-deleted contacts are invisible to reconciliation: neither the *)
(* match query nor the cluster query returns a row with deletedAt set; a   *)
(* request whose email and phone are held only by soft-deleted rows        *)
(* creates a new PRIMARY; and no soft-deleted row's id is the              *)
(* primaryContatctId or among the secondaryContactIds of a response.       *)
(***************************************************************************)
C33_SoftDeletedInvisible ==
  /\ \A r \in PlainRequests :
       \A matchingContacts \in
            findByEmailOrPhone(contacts, r.email, r.phoneNumber) :
         \A i \in 1..Len(matchingContacts) :
           matchingContacts[i].deletedAt = NoTime
  /\ \A primaryIds \in { << p >> : p \in Ids(contacts) }
                        \cup { << p, q >> : p, q \in Ids(contacts) } :
       \A allContacts \in findAllLinkedContacts(contacts, primaryIds) :
         \A i \in 1..Len(allContacts) : allContacts[i].deletedAt = NoTime
  /\ ( /\ Called
       /\ response.kind # "ValidationError"
       /\ LiveMatches(before, request) = {} ) => CreatedPrimary
  /\ Answered =>
       \A c \in { response.primaryContatctId }
                \cup Range(response.secondaryContactIds) :
         contacts[c].deletedAt = NoTime

\* The request's email and phone were held by soft-deleted rows only, and
\* the call created a primary.
C33_Witness ==
  /\ CreatedPrimary
  /\ \E c \in Ids(before) \ Live(before) : before[c].email = request.email
  /\ \E c \in Ids(before) \ Live(before) :
       before[c].phoneNumber = request.phoneNumber
  /\ request.email # NULL
  /\ request.phoneNumber # NULL

\* Rows c and d hold the same email or the same phone.
ShareValue(store, c, d) ==
  \/ store[c].email # NULL /\ store[c].email = store[d].email
  \/ store[c].phoneNumber # NULL /\ store[c].phoneNumber = store[d].phoneNumber

(***************************************************************************)
(* C34  Clusters partition the values: in every state reached from the     *)
(* empty table by sequential identify calls, two rows that share an email  *)
(* or a phone have the same primary, which is a PRIMARY row; no value      *)
(* occurs in two clusters.                                                 *)
(***************************************************************************)
C34_ClustersPartitionValues ==
  \A c, d \in Ids(contacts) :
    ShareValue(contacts, c, d) =>
      /\ PrimaryOf(contacts, c) = PrimaryOf(contacts, d)
      /\ contacts[PrimaryOf(contacts, c)].linkPrecedence = PRIMARY

\* A bridging request merged two clusters, one of which had a secondary:
\* the rows sharing a value are three, under one primary.
C34_Witness ==
  /\ \E b \in Ids(before) : Demoted(b)
  /\ Len(contacts) = 3
  /\ \E c, d \in Ids(contacts) : c # d /\ ShareValue(contacts, c, d)
  /\ Cardinality({ c \in Ids(contacts) :
                     contacts[c].linkPrecedence = PRIMARY }) = 1

(***************************************************************************)
(* C35  From the empty table and under sequential identify calls, no       *)
(* request resolves to more than two distinct primary ids: every merge     *)
(* that occurs has one winner and one loser, and the merge of three or     *)
(* more primaries is never reached.                                        *)
(***************************************************************************)
C35_MergesArePairwise ==
  /\ \A r \in PlainRequests :
       \A matchingContacts \in
            findByEmailOrPhone(contacts, r.email, r.phoneNumber) :
         Len(resolvePrimaryIds(matchingContacts)) <= 2
  /\ Cardinality(MatchedPrimaries) <= 2
  /\ Cardinality({ b \in Ids(before) : Demoted(b) }) <= 1

\* A merge of two primaries, each alone in its cluster.
C35_Witness ==
  /\ Cardinality(MatchedPrimaries) = 2
  /\ Cardinality({ b \in Ids(before) : Demoted(b) }) = 1
  /\ Len(contacts) = 2
  /\ Answered

\* The live rows linked to the answered primary.
LinkedToAnswered ==
  { c \in Live(contacts) : contacts[c].linkedId = response.primaryContatctId }

(***************************************************************************)
(* C36  The response mirrors the store: after a sequential identify call   *)
(* that returns a response, primaryContatctId is the id of a PRIMARY row,  *)
(* secondaryContactIds lists exactly the live rows whose linkedId is that  *)
(* id, each once, and emails and phoneNumbers are exactly the non-null     *)
(* values held by those rows and the primary.                              *)
(***************************************************************************)
C36_ResponseMirrorsStore ==
  Answered =>
    /\ response.primaryContatctId \in Live(contacts)
    /\ contacts[response.primaryContatctId].linkPrecedence = PRIMARY
    /\ Range(response.secondaryContactIds) = LinkedToAnswered
    /\ Len(response.secondaryContactIds) = Cardinality(LinkedToAnswered)
    /\ Range(response.emails)
         = { contacts[c].email :
               c \in LinkedToAnswered \cup { response.primaryContatctId } }
           \ { NULL }
    /\ Range(response.phoneNumbers)
         = { contacts[c].phoneNumber :
               c \in LinkedToAnswered \cup { response.primaryContatctId } }
           \ { NULL }

\* The call merged two primaries, re-pointed a row and the response lists
\* both the loser and the re-pointed row.
C36_Witness ==
  /\ Answered
  /\ Len(response.secondaryContactIds) = 2
  /\ \E b \in Ids(before) :
       /\ Demoted(b)
       /\ \E c \in Ids(before) : before[c].linkedId = b

(***************************************************************************)
(* C37  The primary of a value only gets older: when a response lists a    *)
(* value that an earlier response listed under primary P, its              *)
(* primaryContatctId is P or a row whose createdAt is not later than P's;  *)
(* and rows of one cluster stay in one cluster.                            *)
(***************************************************************************)
C37_PrimaryOnlyGetsOlder ==
  [][ /\ \A v \in Values :
           ( /\ reported[v] # NoId
             /\ response'.kind = "ok"
             /\ v \in Listed(response') ) =>
             \/ response'.primaryContatctId = reported[v]
             \/ contacts'[response'.primaryContatctId].createdAt
                  <= contacts[reported[v]].createdAt
      /\ \A c, d \in Ids(contacts) :
           PrimaryOf(contacts, c) = PrimaryOf(contacts, d) =>
             PrimaryOf(contacts', c) = PrimaryOf(contacts', d) ]_vars

\* A value first reported under a primary that has since been demoted is
\* now reported under the older primary that absorbed it.
C37_Witness ==
  /\ Answered
  /\ \E b \in Ids(before) :
       /\ Demoted(b)
       /\ before[b].email # NULL
       /\ before[b].email \in Listed(response)
       /\ reported[before[b].email] = response.primaryContatctId
       /\ response.primaryContatctId # b
       /\ contacts[response.primaryContatctId].createdAt
            < contacts[b].createdAt

\* The values the requests of the two concurrent calls have in common.
SharedByCalls ==
  ( ({ inflight[1].email } \cap { inflight[2].email })
    \cup ({ inflight[1].phoneNumber } \cap { inflight[2].phoneNumber }) )
  \ { NULL }

(***************************************************************************)
(* C38  No split clusters after a race: when two concurrent identify calls *)
(* whose requests share an email or a phone have both completed, any two   *)
(* rows holding the shared value have the same primary.                    *)
(***************************************************************************)
C38_NoSplitAfterRace ==
  BothDone =>
    \A v \in SharedByCalls :
      \A c, d \in Ids(contacts) :
        ( /\ v \in { contacts[c].email, contacts[c].phoneNumber }
          /\ v \in { contacts[d].email, contacts[d].phoneNumber } ) =>
          PrimaryOf(contacts, c) = PrimaryOf(contacts, d)

====
